---- MODULE Spec2Model ----
(***************************************************************************)
(* State-machine model of newsGenerator.py: the run controller (main),     *)
(* one process_subject coroutine per subject, one generate_content_async   *)
(* task per (subject, language), the shared RateLimiter, and the search,   *)
(* model, image and document-store collaborators as nondeterministic      *)
(* inputs.                                                                 *)
(*                                                                         *)
(* Event-loop callbacks (everything between two awaits) are atomic and     *)
(* cannot run while a coroutine blocks the loop in the synchronous         *)
(* document-store write; the work handed to run_in_executor runs in pool   *)
(* threads and interleaves freely.  time.time() is read from a monotone    *)
(* integer clock.                                                          *)
(***************************************************************************)
EXTENDS Integers, Sequences, FiniteSets, TLC

VARIABLES
    config,          \* how many of Config.SUBJECTS and Config.LANGUAGES the run has
    apiKey,          \* Config.GEMINI_API_KEY as read from the environment
    mainPc,          \* position of main()
    clock,           \* value time.time() returns now
    last_call_time,  \* RateLimiter.last_call_time
    lockHolder,      \* task inside `async with self.lock`, or NoTask
    wakeAt,          \* time at which the holder's asyncio.sleep may return
    pc,              \* position of each generate_content_async task
    slots,           \* times wait_for_slot has returned to each task
    calls,           \* times each task has called model.generate_content
    news_data,       \* _generate_content_sync's news_data, while it is live
    result,          \* value each generate_content_async task returned
    lastModelStart,  \* clock at the latest model.generate_content call start
    subjPc,          \* position of each process_subject coroutine
    query,           \* process_subject's image_search_query
    payload,         \* process_subject's subject_payload once built
    db,              \* document stored under each document id
    writes           \* times save_subject_news has called set() for each subject

vars == << config, apiKey, mainPc, clock, last_call_time, lockHolder, wakeAt, pc,
           slots, calls, news_data, result, lastModelStart, subjPc, query,
           payload, db, writes >>

----------------------------------------------------------------------------
(* Bounds *)

NumSubjects == 2     \* longest prefix of Config.SUBJECTS a run is given
MaxTasks == 4        \* most (subject, language) pairs a run is given
MaxResults == 1      \* most results the text search returns
TickStep == 5        \* granularity of the clock
MaxIdleClock == 20   \* the clock passes this value only while a task sleeps

(* Program constants *)

REQUEST_INTERVAL_SECONDS == 10
NumLangs == 3        \* len(Config.LANGUAGES)
StartTime == 10      \* time.time() at start: epoch seconds, >= the interval

SUBJECTS == << "Politics", "Economy & Business", "Technology",
               "Health & Science", "Sports", "Entertainment & Culture" >>
\* the labels of SUBJECTS spelled out, one character per element
SUBJECT_CHARS ==
    << << "P", "o", "l", "i", "t", "i", "c", "s" >>,
       << "E", "c", "o", "n", "o", "m", "y", " ", "&", " ", "B", "u", "s", "i", "n", "e", "s", "s" >>,
       << "T", "e", "c", "h", "n", "o", "l", "o", "g", "y" >>,
       << "H", "e", "a", "l", "t", "h", " ", "&", " ", "S", "c", "i", "e", "n", "c", "e" >>,
       << "S", "p", "o", "r", "t", "s" >>,
       << "E", "n", "t", "e", "r", "t", "a", "i", "n", "m", "e", "n", "t", " ", "&", " ", "C", "u", "l", "t", "u", "r", "e" >> >>

LANGUAGES == << "en", "pt", "es" >>
LANGUAGE_NAMES == << "English", "Portuguese", "Spanish" >>

Subjects == 1..NumSubjects
Langs == 1..NumLangs
Tasks == Subjects \X Langs
NoTask == << 0, 0 >>

\* the runs explored: every prefix of the subject list with every prefix of
\* the language list, up to MaxTasks pairs
Configs ==
    { c \in [subjects : Subjects, langs : Langs] : c.subjects * c.langs <= MaxTasks }

\* position of a task in the order in which the loop first runs the tasks:
\* process_subject creates them subject by subject, language by language
TaskOrder(t) == (t[1] - 1) * NumLangs + t[2]

----------------------------------------------------------------------------
(* Python and JSON values *)

None == [t |-> "none"]
Raise == [t |-> "raise"]
JNum == [t |-> "num"]
JStr(s) == [t |-> "str", v |-> s]
JList(q) == [t |-> "list", v |-> q]
JObj(f) == [t |-> "obj", f |-> f]
JBool(b) == [t |-> "bool", v |-> b]
EmptyDict == JObj(<< >>)

\* bool(x)
Truthy(x) ==
    CASE x.t = "none" -> FALSE
      [] x.t = "bool" -> x.v
      [] x.t = "str" -> x.v # ""
      [] x.t = "list" -> x.v # << >>
      [] x.t = "obj" -> DOMAIN x.f # {}
      [] OTHER -> TRUE

\* key in x : True, False or Raise (TypeError).  The strings of this model
\* are whole tokens, so the substring test on a str is equality.
Contains(key, x) ==
    CASE x.t = "obj" -> JBool(key \in DOMAIN x.f)
      [] x.t = "list" -> JBool(\E i \in DOMAIN x.v : x.v[i] = JStr(key))
      [] x.t = "str" -> JBool(x.v = key)
      [] OTHER -> Raise

\* x[key] : the value or Raise (KeyError, TypeError)
GetItem(x, key) ==
    IF x.t = "obj" /\ key \in DOMAIN x.f THEN x.f[key] ELSE Raise

\* x[key] = value : the updated object or Raise (TypeError)
SetItem(x, key, value) ==
    IF x.t = "obj" THEN JObj((key :> value) @@ x.f) ELSE Raise

----------------------------------------------------------------------------
(* The search collaborator and NewsGenerator._get_news_context *)

\* one search hit: complete, or lacking the 'href' or the 'body' key
ResultKinds == { "full", "nohref", "nobody" }

RECURSIVE SeqsUpTo(_, _)
SeqsUpTo(S, n) ==
    IF n = 0 THEN { << >> }
    ELSE LET shorter == SeqsUpTo(S, n - 1)
         IN shorter \cup { Append(q, x) : q \in { r \in shorter : Len(r) = n - 1 }, x \in S }

\* what ddgs.text may do: raise, or return up to MaxResults hits
Hits(q) == [t |-> "hits", v |-> q]
SearchOutcomes == { Raise } \cup { Hits(q) : q \in SeqsUpTo(ResultKinds, MaxResults) }

Href(i) == << "href", i >>

\* the for loop over the hits; an exception ends it and keeps what was built
RECURSIVE ContextLoop(_, _, _, _)
ContextLoop(results, i, context_text, sources) ==
    IF i > Len(results) THEN [text |-> context_text, links |-> sources]
    ELSE CASE results[i] = "full" ->
                ContextLoop(results, i + 1, Append(context_text, i), Append(sources, Href(i)))
           [] results[i] = "nohref" ->
                [text |-> Append(context_text, i), links |-> sources]
           [] OTHER ->
                [text |-> context_text, links |-> sources]

GetNewsContext(outcome) ==
    IF outcome = Raise THEN [text |-> << >>, links |-> << >>]
    ELSE ContextLoop(outcome.v, 1, << >>, << >>)

NoContext == [text |-> << >>, links |-> << >>]

----------------------------------------------------------------------------
(* The model collaborator and NewsGenerator._generate_content_sync *)

\* response.text is a sequence of tokens: code fences, blanks, and pieces of
\* text that are either a JSON document or something json.loads rejects
FenceJson == [t |-> "fence_json"]
Fence == [t |-> "fence"]
Blank == [t |-> "blank"]
NotJson == [t |-> "garbage"]

Headline(l) == JStr(LANGUAGE_NAMES[l])
Doc(title) == JObj([styles |-> JObj([impartial |-> JObj([title |-> title])])])
ModelSources == JList(<< << "href", 0 >> >>)

Documents(l) ==
    { JNum,
      EmptyDict,
      JObj([styles |-> JNum]),
      JObj([styles |-> EmptyDict]),
      JObj([styles |-> JObj([impartial |-> EmptyDict])]),
      Doc(JStr("")),
      Doc(JNum),
      Doc(Headline(l)),
      JObj([styles |-> JObj([impartial |-> JObj([title |-> Headline(l)])]),
            sources |-> ModelSources]) }

\* what model.generate_content / response.text may do for language l
Text(q) == [t |-> "text", v |-> q]
ModelResponses(l) ==
    { Raise, Text(<< NotJson >>), Text(<< FenceJson, Blank, NotJson, Fence >>),
      Text(<< Doc(Headline(l)), Blank, Doc(Headline(l)) >>),
      Text(<< FenceJson, Blank, Doc(Headline(l)), Blank, Fence >>),
      Text(<< Blank, Fence, Doc(JStr("")), Fence >>) }
      \cup { Text(<< d >>) : d \in Documents(l) }

\* text.replace("```json", "").replace("```", "")
RECURSIVE RemoveFences(_)
RemoveFences(text) ==
    IF text = << >> THEN << >>
    ELSE IF Head(text) \in { FenceJson, Fence } THEN RemoveFences(Tail(text))
         ELSE << Head(text) >> \o RemoveFences(Tail(text))

\* str.strip()
RECURSIVE Strip(_)
Strip(text) ==
    IF text = << >> THEN << >>
    ELSE IF Head(text) = Blank THEN Strip(Tail(text))
         ELSE IF text[Len(text)] = Blank THEN Strip(SubSeq(text, 1, Len(text) - 1))
              ELSE text

\* json.loads: the document, or Raise (JSONDecodeError)
JsonLoads(text) ==
    IF Len(text) = 1 /\ text[1].t \in { "num", "str", "list", "obj" } THEN text[1]
    ELSE Raise

\* data.setdefault('sources', links): the model's own 'sources' is kept
AttachSourcesIfAbsent(data, links) ==
    IF data.t = "obj" /\ "sources" \in DOMAIN data.f THEN data
    ELSE SetItem(data, "sources", JList(links))

\* data['sources'] = news_data["links"]
AttachSources(data, links) == SetItem(data, "sources", JList(links))

\* the try block of _generate_content_sync: the dict returned, or None
GenerateFromResponse(resp, links) ==
    IF resp = Raise THEN None
    ELSE LET data == JsonLoads(Strip(RemoveFences(resp.v)))
         IN IF data = Raise THEN None
            ELSE LET withSources == AttachSources(data, links)
                 IN IF withSources = Raise THEN None ELSE withSources

----------------------------------------------------------------------------
(* process_subject: choice of the image query, payload *)

\* the test `res and 'styles' in res and 'impartial' in res['styles']`
HasImpartial(res) ==
    IF ~Truthy(res) THEN JBool(FALSE)
    ELSE IF Contains("styles", res) # JBool(TRUE) THEN Contains("styles", res)
         ELSE Contains("impartial", GetItem(res, "styles"))

\* the loop `for res in results` from position i: the query, or Raise
RECURSIVE ImageSearchQuery(_, _, _)
ImageSearchQuery(results, i, subject) ==
    IF i > Len(results) THEN JStr(subject)
    ELSE LET has == HasImpartial(results[i])
         IN CASE has = Raise -> Raise
              [] has = JBool(FALSE) -> ImageSearchQuery(results, i + 1, subject)
              [] OTHER ->
                   LET headline == GetItem(GetItem(GetItem(results[i], "styles"),
                                                   "impartial"), "title")
                   IN IF headline = Raise THEN Raise
                      ELSE IF Truthy(headline) THEN headline
                           ELSE ImageSearchQuery(results, i + 1, subject)

\* every result stored under the first language code
LangKeyFirst(i) == LANGUAGES[1]

\* language code under which the i-th result is stored
LangKey(i) == LANGUAGES[i]

\* every result stored, None included
PayloadContentAll(results) ==
    [ k \in { LangKey(i) : i \in DOMAIN results } |->
        results[CHOOSE i \in DOMAIN results : LangKey(i) = k] ]

\* the loop `for i, result in enumerate(results)`
PayloadContent(results) ==
    [ k \in { LangKey(i) : i \in { j \in DOMAIN results : Truthy(results[j]) } } |->
        results[CHOOSE i \in DOMAIN results : LangKey(i) = k] ]

\* str.lower() on the characters the labels are made of
UPPER == << "A", "B", "C", "D", "E", "F", "G", "H", "I", "J", "K", "L", "M",
            "N", "O", "P", "Q", "R", "S", "T", "U", "V", "W", "X", "Y", "Z" >>
LOWER == << "a", "b", "c", "d", "e", "f", "g", "h", "i", "j", "k", "l", "m",
            "n", "o", "p", "q", "r", "s", "t", "u", "v", "w", "x", "y", "z" >>
LowerChar(c) ==
    IF \E i \in DOMAIN UPPER : UPPER[i] = c
    THEN LOWER[CHOOSE i \in DOMAIN UPPER : UPPER[i] = c]
    ELSE c
Lower(string) == [i \in DOMAIN string |-> LowerChar(string[i])]

\* str.replace(old, new): the occurrences of old, found left to right and
\* not overlapping, become new
RECURSIVE Replace(_, _, _)
Replace(string, old, new) ==
    IF Len(string) < Len(old) THEN string
    ELSE IF SubSeq(string, 1, Len(old)) = old
         THEN new \o Replace(SubSeq(string, Len(old) + 1, Len(string)), old, new)
         ELSE << Head(string) >> \o Replace(Tail(string), old, new)

\* the two replacements in the other order
DocIdSpacesFirst(subject) ==
    Replace(Replace(Lower(subject), << " " >>, << "-" >>), << " ", "&", " " >>, << "-" >>)

\* doc_id = subject.lower().replace(" & ", "-").replace(" ", "-")
DocId(subject) ==
    Replace(Replace(Lower(subject), << " ", "&", " " >>, << "-" >>), << " " >>, << "-" >>)

\* the document id of every subject of Config.SUBJECTS, and the ids of the
\* subjects a run may have
DOC_IDS == [s \in DOMAIN SUBJECT_CHARS |-> DocId(SUBJECT_CHARS[s])]
DocIds == { DOC_IDS[s] : s \in Subjects }

\* what ddgs.images may do: raise, return nothing, return one image
ImageOutcomes == { "raise", "empty", "found" }
ImageUrl == [t |-> "url", host |-> "image", text |-> << >>]

\* urllib.parse.quote: the percent-encoded form of a str
Quote(string) == << "quoted", string >>

\* ImageService._get_placeholder: urllib.parse.quote raises on a non-str
GetPlaceholder(text) ==
    IF text.t = "str" THEN [t |-> "url", host |-> "placehold.co", text |-> Quote(text.v)]
    ELSE Raise

\* ImageService.get_thumbnail_url
GetThumbnailUrl(q, outcome) ==
    IF outcome = "found" THEN ImageUrl ELSE GetPlaceholder(q)

----------------------------------------------------------------------------
(* The document store: DocumentReference.set(data, merge=True) *)

\* One field of the data against the stored field.  The write names the
\* leaves of the data: a map with fields is merged field by field, anything
\* else (a scalar, a list, a map with no fields) replaces what is stored.
RECURSIVE MergeValue(_, _)
MergeValue(old, new) ==
    IF new.t = "obj" /\ DOMAIN new.f # {} /\ old.t = "obj"
    THEN JObj([ k \in DOMAIN old.f \cup DOMAIN new.f |->
                  IF k \notin DOMAIN new.f THEN old.f[k]
                  ELSE IF k \in DOMAIN old.f THEN MergeValue(old.f[k], new.f[k])
                       ELSE new.f[k] ])
    ELSE new

\* the 'content' map of the data against the stored one
MergeContent(old, new) ==
    IF DOMAIN new = {} THEN new
    ELSE [ k \in DOMAIN old \cup DOMAIN new |->
             IF k \notin DOMAIN new THEN old[k]
             ELSE IF k \in DOMAIN old THEN MergeValue(old[k], new[k])
                  ELSE new[k] ]

\* the document after set(data, merge=True)
SetMerge(old, data) ==
    IF old = None THEN data
    ELSE [category |-> data.category,
          thumbUrl |-> data.thumbUrl,
          updatedAt |-> data.updatedAt,
          content |-> MergeContent(old.content, data.content)]

----------------------------------------------------------------------------
(* Initial state: the module has been imported, asyncio.run(main()) begins *)

ApiKeys == { None, JStr(""), JStr("key") }

Init ==
    /\ config \in Configs
    /\ apiKey \in ApiKeys
    /\ mainPc = "start"
    /\ clock = StartTime
    /\ last_call_time = 0
    /\ lockHolder = NoTask
    /\ wakeAt = 0
    /\ pc = [t \in Tasks |-> "init"]
    /\ slots = [t \in Tasks |-> 0]
    /\ calls = [t \in Tasks |-> 0]
    /\ news_data = [t \in Tasks |-> NoContext]
    /\ result = [t \in Tasks |-> None]
    /\ lastModelStart = 0
    /\ subjPc = [s \in Subjects |-> "init"]
    /\ query = [s \in Subjects |-> None]
    /\ payload = [s \in Subjects |-> None]
    /\ db = [d \in DocIds |-> None]
    /\ writes = [s \in Subjects |-> 0]

----------------------------------------------------------------------------
(* main *)

\* the check left out
KeyUnchecked(key) == TRUE

\* `if not Config.GEMINI_API_KEY`
KeyConfigured(key) == Truthy(key)

\* the loop runs callbacks only while main awaits its gather and no
\* coroutine is inside the blocking document-store write
ConfiguredSubjects == 1..config.subjects
ConfiguredLangs == 1..config.langs

LoopFree == mainPc = "gather" /\ \A s \in Subjects : subjPc[s] # "saving"

\* process_subject has ended (returned, raised or was cancelled): its
\* locals and the values its language tasks returned are gone
Dropped(f, ended) == [t \in Tasks |-> IF t[1] \in ended THEN None ELSE f[t]]
Cleared(f, ended) == [s \in Subjects |-> IF s \in ended THEN None ELSE f[s]]

MainFatal ==
    /\ mainPc = "start"
    /\ ~KeyConfigured(apiKey)
    /\ mainPc' = "fatal"
    /\ UNCHANGED << config, apiKey, clock, last_call_time, lockHolder, wakeAt, pc,
                    slots, calls, news_data, result, lastModelStart, subjPc,
                    query, payload, db, writes >>

\* services are built and one process_subject task per subject is scheduled
MainStart ==
    /\ mainPc = "start"
    /\ KeyConfigured(apiKey)
    /\ mainPc' = "gather"
    /\ subjPc' = [s \in Subjects |-> IF s \in ConfiguredSubjects THEN "scheduled" ELSE "init"]
    /\ UNCHANGED << config, apiKey, clock, last_call_time, lockHolder, wakeAt, pc,
                    slots, calls, news_data, result, lastModelStart, query,
                    payload, db, writes >>

MainDone ==
    /\ mainPc = "gather"
    /\ \A s \in ConfiguredSubjects : subjPc[s] = "done"
    /\ mainPc' = "done"
    /\ UNCHANGED << config, apiKey, clock, last_call_time, lockHolder, wakeAt, pc,
                    slots, calls, news_data, result, lastModelStart, subjPc,
                    query, payload, db, writes >>

\* gather hands the first exception of a subject task to main, main raises,
\* and asyncio.run cancels every task that is still pending; work already
\* running in a pool thread runs on
MainRaise ==
    /\ LoopFree
    /\ \E s \in Subjects : subjPc[s] = "raised"
    /\ mainPc' = "raised"
    /\ subjPc' = [s \in Subjects |->
                    IF subjPc[s] \in { "scheduled", "gather", "image" }
                    THEN "cancelled" ELSE subjPc[s]]
    /\ pc' = [t \in Tasks |->
                IF pc[t] \in { "ready", "waiting", "sleeping" } THEN "cancelled" ELSE pc[t]]
    /\ lockHolder' = NoTask
    /\ wakeAt' = 0
    /\ result' = Dropped(result, Subjects)
    /\ query' = Cleared(query, Subjects)
    /\ UNCHANGED << config, apiKey, clock, last_call_time, slots, calls, news_data,
                    lastModelStart, payload, db, writes >>

----------------------------------------------------------------------------
(* RateLimiter.wait_for_slot *)

\* the deficit with its sign flipped
WaitTimeFlipped(now, last) == (now - last) - REQUEST_INTERVAL_SECONDS

\* wait_time = self.interval - (now - self.last_call_time)
WaitTime(now, last) == REQUEST_INTERVAL_SECONDS - (now - last)

\* tasks queued on the lock, and the one asyncio.Lock wakes first
Waiting == { t \in Tasks : pc[t] = "waiting" }

\* a lock that lets every caller in
LockNeverHeld == TRUE

\* asyncio.Lock.acquire returns at once: the lock is free and nobody queues
LockAvailable == lockHolder = NoTask /\ Waiting = {}

\* the lock is still t's when wait_for_slot has returned
KeepLock(t) == t

\* leaving `async with self.lock` releases the lock t held
Release(t) == NoTask
FirstWaiter(t) == t \in Waiting /\ \A u \in Waiting : TaskOrder(t) <= TaskOrder(u)

\* body of `async with self.lock` up to its first suspension: either the
\* task sleeps holding the lock, or it stamps, releases and submits
\* _generate_content_sync to the executor
EnterLock(t) ==
    LET now == clock
        wait_time == WaitTime(now, last_call_time)
    IN IF wait_time > 0
       THEN /\ lockHolder' = t
            /\ wakeAt' = now + wait_time
            /\ pc' = [pc EXCEPT ![t] = "sleeping"]
            /\ UNCHANGED << last_call_time, slots >>
       ELSE /\ last_call_time' = clock
            /\ lockHolder' = Release(t)
            /\ wakeAt' = 0
            /\ slots' = [slots EXCEPT ![t] = @ + 1]
            /\ pc' = [pc EXCEPT ![t] = "search"]

\* first step of generate_content_async; the loop runs the tasks in the
\* order in which they were created
Acquire(t) ==
    /\ LoopFree
    /\ pc[t] = "ready"
    /\ \A s \in Subjects : subjPc[s] # "scheduled"
    /\ \A u \in Tasks : TaskOrder(u) < TaskOrder(t) => pc[u] # "ready"
    /\ IF LockAvailable
       THEN EnterLock(t)
       ELSE /\ pc' = [pc EXCEPT ![t] = "waiting"]
            /\ UNCHANGED << last_call_time, lockHolder, wakeAt, slots >>
    /\ UNCHANGED << config, apiKey, mainPc, clock, calls, news_data,
                    result, lastModelStart, subjPc, query, payload, db, writes >>

\* the lock, released, goes to the first waiter
Grant(t) ==
    /\ LoopFree
    /\ lockHolder = NoTask
    /\ FirstWaiter(t)
    /\ EnterLock(t)
    /\ UNCHANGED << config, apiKey, mainPc, clock, calls, news_data,
                    result, lastModelStart, subjPc, query, payload, db, writes >>

\* asyncio.sleep returns; stamp, release, submit to the executor
Wake(t) ==
    /\ LoopFree
    /\ pc[t] = "sleeping"
    /\ lockHolder = t
    /\ clock >= wakeAt
    /\ last_call_time' = clock
    /\ lockHolder' = Release(t)
    /\ wakeAt' = 0
    /\ slots' = [slots EXCEPT ![t] = @ + 1]
    /\ pc' = [pc EXCEPT ![t] = "search"]
    /\ UNCHANGED << config, apiKey, mainPc, clock, calls, news_data,
                    result, lastModelStart, subjPc, query, payload, db, writes >>

\* time passes
Tick ==
    /\ \/ clock < MaxIdleClock
       \/ lockHolder # NoTask /\ clock < wakeAt
    /\ clock' = clock + TickStep
    /\ UNCHANGED << config, apiKey, mainPc, last_call_time, lockHolder, wakeAt, pc,
                    slots, calls, news_data, result, lastModelStart, subjPc,
                    query, payload, db, writes >>

----------------------------------------------------------------------------
(* NewsGenerator._generate_content_sync, in a pool thread *)

\* _get_news_context returns: no text ends the generation with None,
\* otherwise the prompt is built and model.generate_content is called
SearchReturn(t, outcomes) ==
    /\ pc[t] = "search"
    /\ \E outcome \in outcomes :
         LET nd == GetNewsContext(outcome)
         IN IF nd.text = << >>
            THEN /\ pc' = [pc EXCEPT ![t] = "done"]
                 /\ result' = [result EXCEPT ![t] = None]
                 /\ UNCHANGED << news_data, calls, lastModelStart >>
            ELSE /\ pc' = [pc EXCEPT ![t] = "model"]
                 /\ news_data' = [news_data EXCEPT ![t] = nd]
                 /\ calls' = [calls EXCEPT ![t] = @ + 1]
                 /\ lastModelStart' = clock
                 /\ UNCHANGED result
    /\ UNCHANGED << config, apiKey, mainPc, clock, last_call_time, lockHolder, wakeAt,
                    slots, subjPc, query, payload, db, writes >>

\* the task of this generation has not been cancelled: its value is kept
Awaited(t) == subjPc[t[1]] = "gather"

\* model.generate_content has given r; the rest of the try block, and its
\* except clause
ModelReturnWith(t, r) ==
    /\ pc[t] = "model"
    /\ LET data == GenerateFromResponse(r, news_data[t].links)
       IN result' = [result EXCEPT ![t] = IF Awaited(t) THEN data ELSE None]
    /\ pc' = [pc EXCEPT ![t] = "done"]
    /\ news_data' = [news_data EXCEPT ![t] = NoContext]
    /\ UNCHANGED << config, apiKey, mainPc, clock, last_call_time, lockHolder, wakeAt,
                    slots, calls, lastModelStart, subjPc, query, payload, db, writes >>

\* model.generate_content returns or raises
ModelReturn(t, responses) == \E r \in responses : ModelReturnWith(t, r)

----------------------------------------------------------------------------
(* process_subject *)

\* up to `await asyncio.gather(*tasks)`: one task per language is created
StartSubject(s) ==
    /\ LoopFree
    /\ subjPc[s] = "scheduled"
    /\ \A r \in Subjects : r < s => subjPc[r] # "scheduled"
    /\ subjPc' = [subjPc EXCEPT ![s] = "gather"]
    /\ pc' = [t \in Tasks |-> IF t[1] = s /\ t[2] \in ConfiguredLangs THEN "ready" ELSE pc[t]]
    /\ UNCHANGED << config, apiKey, mainPc, clock, last_call_time, lockHolder, wakeAt,
                    slots, calls, news_data, result, lastModelStart, query,
                    payload, db, writes >>

\* a gather that returns with the first language task
AnyGenerationDone(s) == \E l \in ConfiguredLangs : pc[<< s, l >>] = "done"

\* asyncio.gather(*tasks) returns once every language task has returned
AllGenerationsDone(s) == \A l \in ConfiguredLangs : pc[<< s, l >>] = "done"

Results(s) == [l \in ConfiguredLangs |-> result[<< s, l >>]]

\* gather returns; the image query is chosen and the lookup is submitted
SelectQuery(s) ==
    /\ LoopFree
    /\ subjPc[s] = "gather"
    /\ AllGenerationsDone(s)
    /\ LET q == ImageSearchQuery(Results(s), 1, SUBJECTS[s])
       IN IF q = Raise
          THEN /\ subjPc' = [subjPc EXCEPT ![s] = "raised"]
               /\ result' = Dropped(result, { s })
               /\ UNCHANGED query
          ELSE /\ subjPc' = [subjPc EXCEPT ![s] = "image"]
               /\ query' = [query EXCEPT ![s] = q]
               /\ UNCHANGED result
    /\ UNCHANGED << config, apiKey, mainPc, clock, last_call_time, lockHolder, wakeAt,
                    pc, slots, calls, news_data, lastModelStart, payload,
                    db, writes >>

SubjectPayload(s, thumb_url) ==
    [category |-> SUBJECTS[s],
     thumbUrl |-> thumb_url,
     updatedAt |-> "SERVER_TIMESTAMP",
     content |-> PayloadContent(Results(s))]

\* get_thumbnail_url returns or raises; the payload is built and
\* firebase.save_subject_news is entered
ImageReturn(s) ==
    /\ LoopFree
    /\ subjPc[s] = "image"
    /\ \E outcome \in ImageOutcomes :
         LET thumb_url == GetThumbnailUrl(query[s], outcome)
         IN IF thumb_url = Raise
            THEN /\ subjPc' = [subjPc EXCEPT ![s] = "raised"]
                 /\ result' = Dropped(result, { s })
                 /\ query' = Cleared(query, { s })
                 /\ UNCHANGED payload
            ELSE /\ subjPc' = [subjPc EXCEPT ![s] = "saving"]
                 /\ payload' = [payload EXCEPT ![s] = SubjectPayload(s, thumb_url)]
                 /\ UNCHANGED << result, query >>
    /\ UNCHANGED << config, apiKey, mainPc, clock, last_call_time, lockHolder, wakeAt,
                    pc, slots, calls, news_data, lastModelStart, db, writes >>

\* FirebaseService.save_subject_news: the write succeeds, or its exception
\* is logged; process_subject returns
WriteReturn(s) ==
    /\ subjPc[s] = "saving"
    /\ \E ok \in BOOLEAN :
         db' = [db EXCEPT ![DOC_IDS[s]] = IF ok THEN SetMerge(@, payload[s]) ELSE @]
    /\ writes' = [writes EXCEPT ![s] = @ + 1]
    /\ subjPc' = [subjPc EXCEPT ![s] = "done"]
    /\ result' = Dropped(result, { s })
    /\ query' = Cleared(query, { s })
    /\ payload' = Cleared(payload, { s })
    /\ UNCHANGED << config, apiKey, mainPc, clock, last_call_time, lockHolder, wakeAt,
                    pc, slots, calls, news_data, lastModelStart >>

----------------------------------------------------------------------------

\* the steps of main, of the coroutines and of the clock
Step ==
    \/ MainFatal
    \/ MainStart
    \/ MainDone
    \/ MainRaise
    \/ Tick
    \/ \E s \in Subjects : StartSubject(s)
    \/ \E t \in Tasks : Acquire(t)
    \/ \E t \in Tasks : Grant(t)
    \/ \E t \in Tasks : Wake(t)
    \/ \E s \in Subjects : SelectQuery(s)
    \/ \E s \in Subjects : ImageReturn(s)
    \/ \E s \in Subjects : WriteReturn(s)

\* The run of up to MaxTasks pairs.  The search raises or returns one
\* complete hit.  The model raises, returns text that is no JSON, or returns
\* (bare or fenced, with or without a 'sources' key of its own) the document
\* asked for, a document with an empty impartial title, or a document whose
\* impartial style has no title.
RunSearchOutcomes == { Raise, Hits(<< "full" >>) }
RunDocuments(l) ==
    { Doc(Headline(l)),
      JObj([styles |-> JObj([impartial |-> JObj([title |-> Headline(l)])]),
            sources |-> ModelSources]),
      Doc(JStr("")),
      JObj([styles |-> JObj([impartial |-> EmptyDict])]) }
RunResponses(l) ==
    { Raise, Text(<< NotJson >>) }
      \cup { Text(<< d >>) : d \in RunDocuments(l) }
      \cup { Text(<< FenceJson, Blank, d, Blank, Fence >>) : d \in RunDocuments(l) }

Next ==
    \/ Step
    \/ \E t \in Tasks : SearchReturn(t, RunSearchOutcomes)
    \/ \E t \in Tasks : ModelReturn(t, RunResponses(t[2]))

Spec == Init /\ [][Next]_vars

\* The run over one subject with collaborators that answer from the full
\* sets: every search outcome, every response text.
InitData == Init /\ config.subjects = 1

NextData ==
    \/ Step
    \/ \E t \in Tasks : SearchReturn(t, SearchOutcomes)
    \/ \E t \in Tasks : ModelReturn(t, ModelResponses(t[2]))

SpecData == InitData /\ [][NextData]_vars

----------------------------------------------------------------------------
(* Properties *)

\* a step in which task t starts its model.generate_content call
ModelCallStarts(t) == pc[t] = "search" /\ pc'[t] = "model"

\* a step in which wait_for_slot returns to task t
SlotGranted(t) == pc[t] \in { "ready", "waiting", "sleeping" } /\ pc'[t] = "search"

\* C1: any two model.generate_content calls of a run start at least
\* REQUEST_INTERVAL_SECONDS apart: whenever a call starts, the call before it
\* started at least the interval earlier.
C1_ModelCallsSpaced ==
    [][ \A t \in Tasks :
          (ModelCallStarts(t) /\ lastModelStart # 0)
            => clock' - lastModelStart >= REQUEST_INTERVAL_SECONDS ]_vars

\* C2: the stamps that consecutive granted acquisitions write into
\* last_call_time differ by at least the interval, however many tasks wait.
C2_GrantsSpaced ==
    [][ \A t \in Tasks :
          (SlotGranted(t) /\ last_call_time # 0)
            => last_call_time' - last_call_time >= REQUEST_INTERVAL_SECONDS ]_vars

\* three tasks have been granted a slot, the later ones after waiting
C2_Witness ==
    /\ Cardinality({ t \in Tasks : slots[t] = 1 }) >= 3
    /\ last_call_time >= StartTime + 2 * REQUEST_INTERVAL_SECONDS

\* C3: a generation whose search comes back with empty text returns None
\* having made no model call and having taken no RateLimiter slot.
C3_EmptySearchTakesNoSlot ==
    [][ \A t \in Tasks :
          (pc[t] = "search" /\ pc'[t] = "done")
            => (result'[t] = None /\ calls'[t] = 0 /\ slots'[t] = 0) ]_vars

\* C4: no subject is ever cancelled or aborted because of what happened to
\* another subject.
C4_NoSubjectCancelled == \A s \in Subjects : subjPc[s] # "cancelled"

\* C5: past the key check no exception escapes: no process_subject raises
\* and main does not raise.
C5_NoExceptionEscapes ==
    mainPc # "raised" /\ \A s \in Subjects : subjPc[s] # "raised"

\* C6: the keys of the content mapping handed to the document store are
\* exactly the codes of the languages whose generation returned a value, each
\* mapped to the value of its own language.
C6_ContentIsSuccessfulLanguages ==
    \A s \in Subjects :
      subjPc[s] = "saving" =>
        /\ DOMAIN payload[s].content =
             { LANGUAGES[l] : l \in { k \in ConfiguredLangs : result[<< s, k >>] # None } }
        /\ \A l \in ConfiguredLangs :
             result[<< s, l >>] # None =>
               payload[s].content[LANGUAGES[l]] = result[<< s, l >>]

\* a payload is handed over in which a later language succeeded and an
\* earlier one failed
C6_Witness ==
    \E s \in Subjects :
      /\ subjPc[s] = "saving"
      /\ config.langs >= 2
      /\ result[<< s, 1 >>] = None
      /\ result[<< s, 2 >>] # None

\* the impartial title of a generation's value, None when the generation
\* failed or the title is missing
ImpartialTitle(res) ==
    IF res.t = "obj" /\ "styles" \in DOMAIN res.f
    THEN LET styles == res.f["styles"]
         IN IF styles.t = "obj" /\ "impartial" \in DOMAIN styles.f
            THEN LET impartial == styles.f["impartial"]
                 IN IF impartial.t = "obj" /\ "title" \in DOMAIN impartial.f
                    THEN impartial.f["title"] ELSE None
            ELSE None
    ELSE None

\* the query claim C7 describes
FirstHeadline(s) ==
    LET titled == { l \in ConfiguredLangs : Truthy(ImpartialTitle(result[<< s, l >>])) }
    IN IF titled = {} THEN JStr(SUBJECTS[s])
       ELSE ImpartialTitle(result[<< s, CHOOSE l \in titled : \A k \in titled : l <= k >>])

\* C7: when the language generations of a subject have returned, the image
\* lookup is made with the impartial title of the first language, in
\* configured order, that has a non-empty one, and with the bare subject when
\* every title is empty or missing.
C7_QueryIsFirstHeadline ==
    [][ \A s \in Subjects :
          (subjPc[s] = "gather" /\ subjPc'[s] \notin { "gather", "cancelled" })
            => (subjPc'[s] = "image" /\ query'[s] = FirstHeadline(s)) ]_vars

\* C8: the thumbnail lookup of a subject is under way only once all its
\* language generations have returned, and its document-store write only
\* once, in addition, the lookup has returned its URL.
C8_SubjectStagesOrdered ==
    \A s \in Subjects :
      /\ subjPc[s] \in { "image", "saving", "done" }
           => \A l \in ConfiguredLangs : pc[<< s, l >>] = "done"
      /\ subjPc[s] = "saving"
           => \E outcome \in ImageOutcomes :
                payload[s].thumbUrl = GetThumbnailUrl(query[s], outcome)

\* a subject with several languages is in its write while another subject
\* is still generating
C8_Witness ==
    \E s, r \in Subjects :
      /\ subjPc[s] = "saving"
      /\ config.langs >= 2
      /\ subjPc[r] = "gather"

\* the JSON document a response text holds, Raise when it holds none
TextDocument(r) ==
    IF r = Raise THEN Raise
    ELSE LET body == SelectSeq(r.v, LAMBDA tok : tok.t \notin { "fence_json", "fence", "blank" })
         IN IF Len(body) = 1 /\ body[1].t \in { "num", "str", "list", "obj" }
            THEN body[1] ELSE Raise

\* C9: a generation that returns a value returns the model's document with
\* 'sources' set to the links of its own search, whatever 'sources' the
\* document had; a failed call or a text that is no JSON gives None.
C9_SourcesAreSearchLinks ==
    [][ \A t \in Tasks :
          (pc[t] = "model" /\ pc'[t] = "done" /\ Awaited(t)) =>
            \A r \in ModelResponses(t[2]) :
              result'[t] = GenerateFromResponse(r, news_data[t].links) =>
                LET doc == TextDocument(r)
                    res == result'[t]
                IN /\ doc = Raise => res = None
                   /\ res # None =>
                        /\ doc.t = "obj"
                        /\ DOMAIN res.f = DOMAIN doc.f \cup { "sources" }
                        /\ res.f["sources"] = JList(news_data[t].links)
                        /\ \A k \in DOMAIN doc.f \ { "sources" } :
                             res.f[k] = doc.f[k] ]_vars

\* two generations have returned values whose sources differ, as their
\* searches did
C9_Witness ==
    \E t, u \in Tasks :
      /\ result[t] # None
      /\ result[u] # None
      /\ result[t].f["sources"] # result[u].f["sources"]

\* C10: with no model API key configured nothing is started: no slot is
\* taken, no search, model call or image lookup is made, nothing is written.
C10_NoKeyNoWork ==
    apiKey \in { None, JStr("") } =>
      /\ mainPc \in { "start", "fatal" }
      /\ \A t \in Tasks : pc[t] = "init" /\ slots[t] = 0 /\ calls[t] = 0
      /\ \A s \in Subjects : subjPc[s] = "init" /\ payload[s] = None
      /\ \A d \in DocIds : db[d] = None
      /\ last_call_time = 0
      /\ lastModelStart = 0

\* main has raised on the missing key
C10_Witness == mainPc = "fatal" /\ apiKey \in { None, JStr("") }

\* C11: in a run that passes the key check the document-store write is
\* attempted exactly once for every configured subject: never twice, and,
\* once main has ended, never zero times, whatever happened to the write of
\* another subject.
C11_OneWritePerSubject ==
    /\ \A s \in Subjects : writes[s] <= 1
    /\ mainPc \in { "done", "raised" } =>
         \A s \in ConfiguredSubjects : writes[s] = 1

----------------------------------------------------------------------------
(* Runs one after another on the same date *)

\* The process has ended: asyncio.run has returned or raised and the pool
\* threads have finished.  The program is started again; only the document
\* store keeps what it holds.
NextRun ==
    /\ mainPc \in { "done", "raised", "fatal" }
    /\ \A t \in Tasks : pc[t] \notin { "search", "model" }
    /\ mainPc' = "start"
    /\ clock' = StartTime
    /\ last_call_time' = 0
    /\ lockHolder' = NoTask
    /\ wakeAt' = 0
    /\ pc' = [t \in Tasks |-> "init"]
    /\ slots' = [t \in Tasks |-> 0]
    /\ calls' = [t \in Tasks |-> 0]
    /\ news_data' = [t \in Tasks |-> NoContext]
    /\ result' = [t \in Tasks |-> None]
    /\ lastModelStart' = 0
    /\ subjPc' = [s \in Subjects |-> "init"]
    /\ query' = [s \in Subjects |-> None]
    /\ payload' = [s \in Subjects |-> None]
    /\ writes' = [s \in Subjects |-> 0]
    /\ UNCHANGED << config, apiKey, db >>

\* The model raises, returns the document asked for, or returns a document
\* whose impartial style has no title.
RerunResponses(l) ==
    { Raise, Text(<< Doc(Headline(l)) >>),
      Text(<< JObj([styles |-> JObj([impartial |-> EmptyDict])]) >>) }

NextRuns ==
    \/ Step
    \/ NextRun
    \/ \E t \in Tasks : SearchReturn(t, RunSearchOutcomes)
    \/ \E t \in Tasks : ModelReturn(t, RerunResponses(t[2]))

SpecRuns == InitData /\ [][NextRuns]_vars

\* C12: a write never erases a language stored by an earlier run: every
\* language code the stored document holds and the new payload lacks is still
\* there after the write, with the content it had, also when the payload's
\* content mapping is empty.
C12_StoredLanguagesKept ==
    [][ \A s \in Subjects :
          (subjPc[s] = "saving" /\ subjPc'[s] = "done" /\ db[DOC_IDS[s]] # None) =>
            \A k \in DOMAIN db[DOC_IDS[s]].content \ DOMAIN payload[s].content :
              /\ k \in DOMAIN db'[DOC_IDS[s]].content
              /\ db'[DOC_IDS[s]].content[k] = db[DOC_IDS[s]].content[k] ]_vars

\* C13: the RateLimiter lock is held only inside wait_for_slot: the holder
\* is a task suspended in the sleep of wait_for_slot, never a task whose
\* _generate_content_sync (search or model call) is in progress.
C13_LockNotHeldInCall ==
    \A t \in Tasks : lockHolder = t => pc[t] = "sleeping"

\* a slot was granted after the latest model call started, while a model
\* call is still running
C13_Witness ==
    /\ \E t \in Tasks : pc[t] = "model"
    /\ lastModelStart # 0
    /\ last_call_time > lastModelStart

----------------------------------------------------------------------------
(* The run under fair scheduling *)

\* The event loop runs every callback that is ready and time passes; every
\* search and every model call returns or raises.
Fairness ==
    /\ WF_vars(Step)
    /\ WF_vars(\E t \in Tasks : SearchReturn(t, RunSearchOutcomes))
    /\ WF_vars(\E t \in Tasks : ModelReturn(t, RunResponses(t[2])))

SpecLive == Init /\ [][Next]_vars /\ Fairness

\* C14: a run that has passed the key check completes: every configured
\* (subject, language) task is granted its slot, every configured subject
\* reaches its write, and main's await of the subject tasks returns.
C14_RunCompletes ==
    (mainPc = "gather") ~>
        /\ mainPc = "done"
        /\ \A s \in ConfiguredSubjects : writes[s] = 1
        /\ \A s \in ConfiguredSubjects : \A l \in ConfiguredLangs : slots[<< s, l >>] = 1

\* C15: the document id is the label in lower case with " & " and then " "
\* replaced by "-": "Economy & Business" gives "economy-business" and
\* "Health & Science" gives "health-science"; the ids of the configured
\* subjects are pairwise different, and a stored document is always the
\* document of the subject whose id it is stored under.
C15_DocIdsDistinct ==
    /\ DOC_IDS[2] = << "e", "c", "o", "n", "o", "m", "y", "-",
                       "b", "u", "s", "i", "n", "e", "s", "s" >>
    /\ DOC_IDS[4] = << "h", "e", "a", "l", "t", "h", "-",
                       "s", "c", "i", "e", "n", "c", "e" >>
    /\ \A s, r \in DOMAIN DOC_IDS : s # r => DOC_IDS[s] # DOC_IDS[r]
    /\ \A s \in Subjects :
         db[DOC_IDS[s]] # None => db[DOC_IDS[s]].category = SUBJECTS[s]

\* two subjects of one run have both stored their documents
C15_Witness ==
    \E s, r \in Subjects :
      /\ s # r
      /\ writes[s] = 1 /\ db[DOC_IDS[s]] # None
      /\ writes[r] = 1 /\ db[DOC_IDS[r]] # None

\* C16: get_thumbnail_url never raises: every lookup ends with the payload
\* handed to the document store, carrying the image URL found or the
\* placeholder URL built from the query text.
C16_LookupReturnsUrl ==
    [][ \A s \in Subjects :
          (subjPc[s] = "image" /\ subjPc'[s] \notin { "image", "cancelled" }) =>
            /\ subjPc'[s] = "saving"
            /\ payload'[s].thumbUrl \in
                 { ImageUrl,
                   [t |-> "url", host |-> "placehold.co", text |-> Quote(query[s].v)] } ]_vars

\* C17: in one run every configured (subject, language) pair takes exactly
\* one RateLimiter slot and makes at most one model call, made only after the
\* pair's own slot was granted: no pair takes two slots or calls twice, and
\* once main has ended no pair is left without its acquisition.
C17_OneSlotOneCallPerPair ==
    /\ \A t \in Tasks : slots[t] <= 1 /\ calls[t] <= slots[t]
    /\ mainPc \in { "done", "raised" } =>
         \A s \in ConfiguredSubjects : \A l \in ConfiguredLangs : slots[<< s, l >>] = 1

\* C18: searches and image lookups are outside the RateLimiter: the search
\* of a pair starts without the pair having queued or slept for a slot and
\* without taking one, and the start of an image lookup neither reads nor
\* writes the limiter.
C18_SearchOutsideLimiter ==
    [][ /\ \A t \in Tasks :
             (pc[t] # "search" /\ pc'[t] = "search") =>
               (pc[t] = "ready" /\ slots'[t] = 0)
        /\ \A s \in Subjects :
             (subjPc[s] = "gather" /\ subjPc'[s] = "image") =>
               UNCHANGED << last_call_time, lockHolder, wakeAt, slots >> ]_vars

\* a step in which task t enters the locked section and reads last_call_time
EntersSection(t) == pc[t] \in { "ready", "waiting" } /\ pc'[t] \in { "sleeping", "search" }

\* C19: at most one task is inside the locked section of wait_for_slot, the
\* sleeping holder included; a task reads last_call_time only when every
\* task that read it before has written its stamp, and every stamp is later
\* than the one it replaces, so no two tasks read the same value.
C19_OneTaskInSection ==
    /\ [](/\ Cardinality({ t \in Tasks : pc[t] = "sleeping" }) <= 1
          /\ \A t \in Tasks : pc[t] = "sleeping" => lockHolder = t)
    /\ [][ \A t \in Tasks :
             /\ EntersSection(t) =>
                  (lockHolder = NoTask /\ \A u \in Tasks : pc[u] # "sleeping")
             /\ SlotGranted(t) => last_call_time' > last_call_time ]_vars

\* a task sleeps inside the section while two others queue on the lock
C19_Witness ==
    \E t, u, v \in Tasks :
      /\ pc[t] = "sleeping" /\ lockHolder = t
      /\ u # v /\ pc[u] = "waiting" /\ pc[v] = "waiting"

\* every language generation of subject s has returned None
AllFailed(s) == \A l \in ConfiguredLangs : result[<< s, l >>] = None

\* C20: a subject whose language generations all returned None is not
\* skipped: its image lookup is made with the bare subject name, its payload
\* carries the category, a URL and an empty content mapping, and the
\* document-store write is issued once.
C20_EmptySubjectStillWritten ==
    [][ \A s \in Subjects :
          /\ (subjPc[s] = "gather" /\ subjPc'[s] \notin { "gather", "cancelled" } /\ AllFailed(s))
               => (subjPc'[s] = "image" /\ query'[s] = JStr(SUBJECTS[s]))
          /\ (subjPc[s] = "image" /\ subjPc'[s] \notin { "image", "cancelled" } /\ AllFailed(s))
               => /\ subjPc'[s] = "saving"
                  /\ payload'[s].category = SUBJECTS[s]
                  /\ payload'[s].thumbUrl.t = "url"
                  /\ DOMAIN payload'[s].content = {}
          /\ (subjPc[s] = "saving" /\ subjPc'[s] # "saving")
               => (subjPc'[s] = "done" /\ writes'[s] = writes[s] + 1) ]_vars

\* a subject of several languages, all failed, has had its write issued
\* with an empty content mapping
C20_Witness ==
    \E s \in Subjects :
      /\ config.langs >= 2
      /\ writes[s] = 1
      /\ db[DOC_IDS[s]] # None
      /\ DOMAIN db[DOC_IDS[s]].content = {}
      /\ db[DOC_IDS[s]].thumbUrl = GetPlaceholder(JStr(SUBJECTS[s]))

====
